---- MODULE Spec2Model ----
(***************************************************************************)
(* The asynchronous message pipeline of the financial-data processor:      *)
(* producer/main.py publishes envelopes, the broker holds them in a        *)
(* durable queue, worker/services/rabbitmq.py dispatches each delivery to  *)
(* worker/main.py:process_message and acknowledges according to the        *)
(* exception class the handler raised.                                     *)
(***************************************************************************)
EXTENDS Integers, Sequences, FiniteSets, TLC

\* ------------------------------------------------------------------ bounds
MaxMsgs == 2          \* messages ever published
MaxStored == 2        \* documents in the collection (Spec, RetrySpec)
MaxRequeues == 2      \* the requeue monitor saturates here (no guard uses it)
MaxFaults == 2        \* faults injected under LiveSpec
MaxText == 4          \* tokens of an API response text (AdapterSpec)
MaxWords == 4         \* tokens of a string given to a parsing function (ParseSpec)

\* two worker processes consume from the same queue
Consumers == {1, 2}
RequestIds == 1..MaxMsgs

\* the value of "no message" (messages are numbered from 1)
NoMsg == 0

\* A string is the sequence of its tokens (words, numbers, symbols); the
\* empty string is << >>.
EmptyString == << >>

\* raw_text values a caller submits (the empty string passes the
\* RawFinancialData model)
RawTexts ==
    {EmptyString,
     <<"Company", "XYZ", "reported", "a", "net", "income", "of", "$", "5.3", "million",
       "for", "Q1", "2024">>}

\* ------------------------------------------------- exception classes
\* openai.error classes named by the except clauses
OpenAIErrors ==
    {"APIError", "Timeout", "RateLimitError", "APIConnectionError", "InvalidRequestError"}

\* pika.exceptions classes named by the except clauses
AMQPErrors == {"AMQPConnectionError", "AMQPChannelError"}

\* The classes an exception is an instance of (itself and its bases).
Bases(e) ==
    CASE e = "JSONDecodeError"    -> {"JSONDecodeError", "ValueError", "Exception"}
      [] e = "UnicodeDecodeError" -> {"UnicodeDecodeError", "ValueError", "Exception"}
      [] e = "SystemExit"         -> {"SystemExit"}
      [] e = "KeyboardInterrupt"  -> {"KeyboardInterrupt"}
      [] OTHER                    -> {e, "Exception"}

IsInstance(e, classes) == Bases(e) \cap classes # {}

\* What insert_one can end with.
StoreOutcomes == {"ok", "ConnectionFailure", "OperationFailure"}

TransientErrors == OpenAIErrors \cup {"ConnectionFailure"}

\* ------------------------------------------------- payloads
\* Message bodies on the queue: the producer's envelope, or a body put there
\* by another publisher that is not a well-formed envelope.
MalformedKinds == {"undecodable", "invalid_json", "non_object"}

\* A JSON object another publisher put on the queue that has no raw_text key.
ObjectKinds == {"no_raw_text"}

Envelope(rid, text) == [kind |-> "envelope", request_id |-> rid, raw_text |-> text]
Malformed(k) == [kind |-> k, request_id |-> 0, raw_text |-> EmptyString]

\* body.decode('utf-8') followed by deserialize_from_json: the exception
\* raised, or "none" when json.loads returns a value.
DeserializeExc(body) ==
    CASE body.kind = "undecodable"  -> "UnicodeDecodeError"
      [] body.kind = "invalid_json" -> "JSONDecodeError"
      [] OTHER                      -> "none"

\* ------------------------------------------------- common/utils.py
\* JSON values of the fields of an extraction response: a string, a number,
\* null, or no such key in the object.
Str(toks) == [type |-> "string", toks |-> toks]
JsonNumber == [type |-> "number", toks |-> EmptyString]
JsonNull == [type |-> "null", toks |-> EmptyString]
Absent == [type |-> "absent", toks |-> EmptyString]

\* `not v`: None and the empty string are falsy.
Falsy(v) == v.type = "null" \/ (v.type = "string" /\ v.toks = EmptyString)

First(S) == CHOOSE i \in S : \A j \in S : i <= j

\* The character class [$...] of currency symbols that re.sub removes.
CurrencySymbols == {"$", "pound", "euro", "yen"}

KeepToken(t) == t \notin CurrencySymbols

\* A float is sig * 10^exp, with sig free of trailing zeros (0.0 is Zero):
\* the values of the model have a short decimal expansion, and equal ones
\* have one representation.
Float(sig, exp) == [sig |-> sig, exp |-> exp]

Zero == Float(0, 0)

\* numeric_value *= 10^n
TimesPowerOfTen(x, n) == IF x.sig = 0 THEN Zero ELSE Float(x.sig, x.exp + n)

\* Tokens matching [-+]?\d*\.?\d+, with float() of them.
NumericTokens ==
    ("5.3" :> Float(53, -1)) @@ ("12" :> Float(12, 0)) @@ ("5300000" :> Float(53, 5)) @@
    ("0" :> Zero) @@ ("-2" :> Float(-2, 0))

\* The tokens at whose start (thousand|million|billion|trillion|[kmbt])
\* matches under re.IGNORECASE, with the group matched, lower-cased: a scale
\* word, a scale letter, or any word that begins with k, m, b or t.
MultiplierTokens ==
    ("thousand" :> "thousand") @@ ("k" :> "k") @@ ("K" :> "k") @@
    ("million" :> "million") @@ ("Million" :> "million") @@ ("m" :> "m") @@ ("M" :> "m") @@
    ("billion" :> "billion") @@ ("b" :> "b") @@ ("B" :> "b") @@
    ("trillion" :> "trillion") @@ ("t" :> "t") @@ ("T" :> "t") @@
    ("to" :> "t") @@ ("months" :> "m")

\* The power of ten applied for the multiplier group.
Multiplier(multiplier) ==
    CASE multiplier \in {"thousand", "k"} -> 3
      [] multiplier \in {"million", "m"}  -> 6
      [] multiplier \in {"billion", "b"}  -> 9
      [] multiplier \in {"trillion", "t"} -> 12

\* A normalization that raises for a value with no numeric token.
NormalizeFinancialValueStrict(value_str) ==
    IF value_str.type # "string" THEN [exc |-> "TypeError", value |-> Zero]
    ELSE IF \A i \in 1..Len(value_str.toks) : value_str.toks[i] \notin DOMAIN NumericTokens
    THEN [exc |-> "ValueError", value |-> Zero]
    ELSE [exc |-> "none", value |-> NumericTokens[value_str.toks[Len(value_str.toks)]]]

\* normalize_financial_value(value_str): the value in tenths, or the
\* exception re.sub raises for an argument that is no string.
NormalizeFinancialValue(value_str) ==
    IF value_str.type # "string" THEN [exc |-> "TypeError", value |-> Zero]
    ELSE LET cleaned_value == SelectSeq(value_str.toks, KeepToken)
             hits == {i \in 1..Len(cleaned_value) : cleaned_value[i] \in DOMAIN NumericTokens}
         IN  IF hits = {} THEN [exc |-> "none", value |-> Zero]
             ELSE LET i == First(hits)
                      numeric_value == NumericTokens[cleaned_value[i]]
                  IN  [exc |-> "none",
                       value |-> IF i < Len(cleaned_value)
                                    /\ cleaned_value[i + 1] \in DOMAIN MultiplierTokens
                                 THEN TimesPowerOfTen(
                                        numeric_value,
                                        Multiplier(MultiplierTokens[cleaned_value[i + 1]]))
                                 ELSE numeric_value]

\* Tokens matching Q([1-4]) under re.IGNORECASE, with "Q" + group(1).
QuarterTokens ==
    ("Q1" :> "Q1") @@ ("Q2" :> "Q2") @@ ("Q3" :> "Q3") @@ ("Q4" :> "Q4") @@
    ("q1" :> "Q1") @@ ("q2" :> "Q2") @@ ("q3" :> "Q3") @@ ("q4" :> "Q4")

\* Tokens matching \d{4}.
YearTokens == {"2023", "2024"}

\* The keys of the quarters dict, in order, and the quarter of each.
QuarterNames == <<"first", "second", "third", "fourth">>
QuarterOfName == <<"Q1", "Q2", "Q3", "Q4">>

\* str.lower() of the words of the written pattern (re.IGNORECASE).
LowerWords ==
    ("First" :> "first") @@ ("Third" :> "third") @@ ("Quarter" :> "quarter") @@ ("OF" :> "of")

Lower(tok) == IF tok \in DOMAIN LowerWords THEN LowerWords[tok] ELSE tok

\* The positions where "<name> quarter of <year>" starts.
WrittenAt(text, name) ==
    {i \in 1..(Len(text) - 3) :
        /\ Lower(text[i]) = name /\ Lower(text[i + 1]) = "quarter"
        /\ Lower(text[i + 2]) = "of" /\ text[i + 3] \in YearTokens}

\* The year-first notation tried before the direct one.
ExtractQuarterYearFirst(text) ==
    LET direct == {i \in 1..(Len(text) - 1) :
                      text[i] \in DOMAIN QuarterTokens /\ text[i + 1] \in YearTokens}
        year_first == {i \in 1..(Len(text) - 1) :
                          text[i] \in YearTokens /\ text[i + 1] \in DOMAIN QuarterTokens}
    IN  IF year_first # {}
        THEN <<QuarterTokens[text[First(year_first) + 1]], text[First(year_first)]>>
        ELSE IF direct # {}
        THEN <<QuarterTokens[text[First(direct)]], text[First(direct) + 1]>>
        ELSE << >>

\* The quarter returned without its year.
ExtractQuarterNoYear(text) ==
    LET direct == {i \in 1..(Len(text) - 1) :
                      text[i] \in DOMAIN QuarterTokens /\ text[i + 1] \in YearTokens}
    IN  IF direct # {} THEN <<QuarterTokens[text[First(direct)]]>> ELSE << >>

\* extract_quarter(text): "Q<n> <year>" by the first pattern that matches
\* (direct, year first, written out), or None (<< >> here).
ExtractQuarter(text) ==
    LET direct == {i \in 1..(Len(text) - 1) :
                      text[i] \in DOMAIN QuarterTokens /\ text[i + 1] \in YearTokens}
        year_first == {i \in 1..(Len(text) - 1) :
                          text[i] \in YearTokens /\ text[i + 1] \in DOMAIN QuarterTokens}
        written == {k \in 1..Len(QuarterNames) : WrittenAt(text, QuarterNames[k]) # {}}
    IN  IF direct # {}
        THEN <<QuarterTokens[text[First(direct)]], text[First(direct) + 1]>>
        ELSE IF year_first # {}
        THEN <<QuarterTokens[text[First(year_first) + 1]], text[First(year_first)]>>
        ELSE IF written # {}
        THEN <<QuarterOfName[First(written)],
               text[First(WrittenAt(text, QuarterNames[First(written)])) + 3]>>
        ELSE << >>

\* ------------------------------------------------- openai_client.py
\* required_fields, in the order they are checked
RequiredFields == <<"company", "metric", "value", "currency", "quarter">>

FieldNames == {RequiredFields[i] : i \in 1..Len(RequiredFields)}

\* The response text of the API as a sequence of tokens: braces, the member
\* list of an object ("members": its keys and values are the `members` of
\* the response), a JSON number, and prose that is no JSON.
JsonTokens == {"{", "}", "members", "7", "prose"}

NoFields == [f \in FieldNames |-> Absent]

\* json.loads(text): the value, or JSONDecodeError.
JsonLoads(text, members) ==
    CASE text = <<"{", "members", "}">> -> [exc |-> "none", kind |-> "object", fields |-> members]
      [] text = <<"{", "}">>            -> [exc |-> "none", kind |-> "object", fields |-> NoFields]
      [] text = <<"7">>                 -> [exc |-> "none", kind |-> "number", fields |-> NoFields]
      [] OTHER -> [exc |-> "JSONDecodeError", kind |-> "none", fields |-> NoFields]

\* str.find / str.rfind: the position, or -1
Find(text, tok) ==
    LET at == {i \in 1..Len(text) : text[i] = tok} IN IF at = {} THEN -1 ELSE First(at)

RFind(text, tok) ==
    LET at == {i \in 1..Len(text) : text[i] = tok}
    IN  IF at = {} THEN -1 ELSE CHOOSE i \in at : \A j \in at : j <= i

\* A search that stops at the first "}".
ExtractJsonToFirstClose(text, members) ==
    LET start_idx == Find(text, "{")
        end_idx == Find(text, "}")
    IN  IF start_idx = -1 \/ end_idx = -1 \/ start_idx > end_idx
        THEN [exc |-> "ValueError", kind |-> "none", fields |-> NoFields]
        ELSE LET loaded == JsonLoads(SubSeq(text, start_idx, end_idx), members)
             IN  IF loaded.exc = "JSONDecodeError"
                 THEN [loaded EXCEPT !.exc = "ValueError"]
                 ELSE loaded

\* _extract_json_from_text(text)
ExtractJsonFromText(text, members) ==
    LET start_idx == Find(text, "{")
        end_idx == RFind(text, "}")
    IN  IF start_idx = -1 \/ end_idx = -1 \/ start_idx > end_idx
        THEN [exc |-> "ValueError", kind |-> "none", fields |-> NoFields]
        ELSE LET loaded == JsonLoads(SubSeq(text, start_idx, end_idx), members)
             IN  IF loaded.exc = "JSONDecodeError"
                 THEN [loaded EXCEPT !.exc = "ValueError"]
                 ELSE loaded

\* The try / except around json.loads(response_text) in
\* extract_financial_data: the extracted_data, or the exception.
LocateJson(response) ==
    LET loaded == JsonLoads(response.text, response.members)
    IN  IF loaded.exc = "JSONDecodeError"
        THEN ExtractJsonFromText(response.text, response.members)
        ELSE loaded

NoData ==
    [company |-> EmptyString, metric |-> EmptyString, value |-> Zero, currency |-> EmptyString,
     quarter |-> EmptyString, raw_text |-> EmptyString, original_value |-> EmptyString]

Unknown == <<"Unknown">>

\* StructuredFinancialData(...): pydantic rejects None for a str field with a
\* ValidationError, which is a ValueError.
Validates(fields) == \A f \in {"company", "metric", "currency"} : fields[f].type = "string"

\* The quarter of the record: the candidate's when it is truthy, otherwise
\* extract_quarter(raw_text) or "Unknown".
NormalizeQuarter(quarter, raw_text) ==
    IF Falsy(quarter)
    THEN IF ExtractQuarter(raw_text) # << >> THEN ExtractQuarter(raw_text) ELSE Unknown
    ELSE quarter.toks

\* A normalization without the check of the required fields: a missing
\* field is read as None.
NormalizeExtractedDataUnchecked(extracted_data, raw_text) ==
    LET fields == extracted_data.fields
        normalized_value == NormalizeFinancialValue(fields.value)
    IN  IF extracted_data.kind # "object"
        THEN [exc |-> "TypeError", data |-> NoData, steps |-> <<"normalize_financial_value">>]
        ELSE IF normalized_value.exc # "none"
        THEN [exc |-> normalized_value.exc, data |-> NoData,
              steps |-> <<"normalize_financial_value">>]
        ELSE IF ~Validates(fields)
        THEN [exc |-> "ValueError", data |-> NoData,
              steps |-> <<"normalize_financial_value", "quarter", "StructuredFinancialData">>]
        ELSE [exc |-> "none",
              data |-> [company |-> fields.company.toks,
                        metric |-> fields.metric.toks,
                        value |-> normalized_value.value,
                        currency |-> fields.currency.toks,
                        quarter |-> NormalizeQuarter(fields.quarter, raw_text),
                        raw_text |-> raw_text,
                        original_value |-> fields.value.toks],
              steps |-> <<"normalize_financial_value", "quarter", "StructuredFinancialData">>]

\* _normalize_extracted_data(extracted_data, raw_text): the exception raised
\* (`in` on a number is a TypeError) or the structured data, and the steps
\* that were run.
NormalizeExtractedData(extracted_data, raw_text) ==
    LET fields == extracted_data.fields
        missing == {i \in 1..Len(RequiredFields) : fields[RequiredFields[i]].type = "absent"}
        normalized_value == NormalizeFinancialValue(fields.value)
    IN  IF extracted_data.kind # "object"
        THEN [exc |-> "TypeError", data |-> NoData, steps |-> <<"required_fields">>]
        ELSE IF missing # {}
        THEN [exc |-> "ValueError", data |-> NoData, steps |-> <<"required_fields">>]
        ELSE IF normalized_value.exc # "none"
        THEN [exc |-> normalized_value.exc, data |-> NoData,
              steps |-> <<"required_fields", "normalize_financial_value">>]
        ELSE IF ~Validates(fields)
        THEN [exc |-> "ValueError", data |-> NoData,
              steps |-> <<"required_fields", "normalize_financial_value", "quarter",
                          "StructuredFinancialData">>]
        ELSE [exc |-> "none",
              data |-> [company |-> fields.company.toks,
                        metric |-> fields.metric.toks,
                        value |-> normalized_value.value,
                        currency |-> fields.currency.toks,
                        quarter |-> NormalizeQuarter(fields.quarter, raw_text),
                        raw_text |-> raw_text,
                        original_value |-> fields.value.toks],
              steps |-> <<"required_fields", "normalize_financial_value", "quarter",
                          "StructuredFinancialData">>]

\* extract_financial_data(raw_text) once the API returned `response`.
ExtractFinancialData(response, raw_text) ==
    LET extracted_data == LocateJson(response)
    IN  IF extracted_data.exc # "none"
        THEN [exc |-> extracted_data.exc, data |-> NoData, steps |-> << >>]
        ELSE NormalizeExtractedData(extracted_data, raw_text)

\* A response whose text is the JSON object with these members.
JsonReply(members) == [text |-> <<"{", "members", "}">>, members |-> members]

NoResponse == [text |-> << >>, members |-> NoFields]

\* The candidate the prompt asks for.
GoodMembers ==
    [company  |-> Str(<<"Company", "XYZ">>),
     metric   |-> Str(<<"Net", "Income">>),
     value    |-> Str(<<"5.3", "million">>),
     currency |-> Str(<<"usd">>),
     quarter  |-> Str(<<"Q1", "2024">>)]

\* What openai.ChatCompletion.create can end with: one of the API errors, or
\* a response.
ApiOutcomes(responses) ==
    {[exc |-> x, response |-> NoResponse] : x \in OpenAIErrors}
        \cup {[exc |-> "none", response |-> r] : r \in responses}

\* The responses of Spec, RetrySpec and LiveSpec: the candidate asked for,
\* one without "currency" (ValueError), one whose "value" is a JSON number
\* (TypeError, a class on_message has no clause for).
SomeResponses ==
    {JsonReply(GoodMembers),
     JsonReply([GoodMembers EXCEPT !.currency = Absent]),
     JsonReply([GoodMembers EXCEPT !.value = JsonNumber])}

ExtractOutcomes == ApiOutcomes(SomeResponses)

\* ------------------------------------------------- dispatcher policy
\* basic_qos(prefetch_count=1)
PrefetchCount == 1

\* basic_qos left out: the broker pushes whatever is ready.
NoPrefetchLimit(held) == TRUE

\* The prefetch window: may the broker push one more message to a consumer
\* holding `held` unsettled ones (a count of 0 means no limit).
WithinPrefetch(held) == PrefetchCount = 0 \/ held < PrefetchCount

\* The API errors nacked with requeue=False.
OnMessageExceptApiDiscard(e) ==
    IF IsInstance(e, {"JSONDecodeError"}) THEN "nack_discard"
    ELSE IF IsInstance(e, OpenAIErrors) THEN "nack_discard"
    ELSE IF IsInstance(e, {"ConnectionFailure"}) THEN "nack_requeue"
    ELSE IF IsInstance(e, {"ValueError"}) THEN "nack_discard"
    ELSE "raise"

\* The storage failure nacked with requeue=False.
OnMessageExceptStorageDiscard(e) ==
    IF IsInstance(e, {"JSONDecodeError"}) THEN "nack_discard"
    ELSE IF IsInstance(e, OpenAIErrors) THEN "nack_requeue"
    ELSE IF IsInstance(e, {"ConnectionFailure"}) THEN "nack_discard"
    ELSE IF IsInstance(e, {"ValueError"}) THEN "nack_discard"
    ELSE "raise"

\* The ValueError nacked with requeue=True.
OnMessageExceptValueRequeue(e) ==
    IF IsInstance(e, {"JSONDecodeError"}) THEN "nack_discard"
    ELSE IF IsInstance(e, OpenAIErrors) THEN "nack_requeue"
    ELSE IF IsInstance(e, {"ConnectionFailure"}) THEN "nack_requeue"
    ELSE IF IsInstance(e, {"ValueError"}) THEN "nack_requeue"
    ELSE "raise"

\* The request the service rejects as invalid nacked with requeue=False.
OnMessageExceptInvalidDiscard(e) ==
    IF IsInstance(e, {"JSONDecodeError"}) THEN "nack_discard"
    ELSE IF IsInstance(e, {"InvalidRequestError"}) THEN "nack_discard"
    ELSE IF IsInstance(e, OpenAIErrors) THEN "nack_requeue"
    ELSE IF IsInstance(e, {"ConnectionFailure"}) THEN "nack_requeue"
    ELSE IF IsInstance(e, {"ValueError"}) THEN "nack_discard"
    ELSE "raise"

\* The except clauses of on_message with a last clause that catches
\* everything and nacks with requeue=False.
OnMessageExceptCatchAll(e) ==
    IF IsInstance(e, {"JSONDecodeError"}) THEN "nack_discard"
    ELSE IF IsInstance(e, OpenAIErrors) THEN "nack_requeue"
    ELSE IF IsInstance(e, {"ConnectionFailure"}) THEN "nack_requeue"
    ELSE "nack_discard"

\* The except clauses of on_message, in order: the signal to send, or
\* "raise" when the exception leaves the callback.
OnMessageExcept(e) ==
    IF IsInstance(e, {"JSONDecodeError"}) THEN "nack_discard"
    ELSE IF IsInstance(e, OpenAIErrors) THEN "nack_requeue"
    ELSE IF IsInstance(e, {"ConnectionFailure"}) THEN "nack_requeue"
    ELSE IF IsInstance(e, {"ValueError"}) THEN "nack_discard"
    ELSE "raise"

\* No basic_ack after the callback: the delivery is nacked instead.
OnMessageReturnNack == "nack_discard"

\* The signal on_message sends after callback(message) returned.
OnMessageReturn == "ack"

\* The except clauses of process_message: every one re-raises what it caught.
ProcessMessageExcept(e) == e

\* A handler that skips no message.
NotRawTextNever(message) == FALSE

\* process_message: "if not raw_text" on message.get('raw_text'), true for
\* an empty text and for an object without the key.
NotRawText(message) == message.raw_text = EmptyString

\* An except clause of consume without its raise.
ConsumeSwallows(e) == "none"

\* The except clauses of consume around start_consuming: what consume()
\* raises to its caller ("none": it returns).
ConsumeRaises(e) == IF IsInstance(e, {"KeyboardInterrupt"}) THEN "none" ELSE e

\* ------------------------------------------------- broker clients
\* exchange_declare, queue_declare and queue_bind of connect()
ExchangeDeclare == [exchange_type |-> "direct", durable |-> TRUE]
QueueDeclare == [durable |-> TRUE]
QueueBind == [routing_key |-> "financial_data"]

\* A publish that leaves delivery_mode at its default (transient).
BasicPublishTransient ==
    [routing_key |-> "financial_data", delivery_mode |-> 1, content_type |-> "application/json"]

\* basic_publish: the routing key and the BasicProperties of the message
BasicPublish ==
    [routing_key |-> "financial_data", delivery_mode |-> 2, content_type |-> "application/json"]

\* What another publisher publishes with: pika's defaults.
ForeignProperties ==
    [routing_key |-> "financial_data", delivery_mode |-> 1, content_type |-> "none"]

\* A direct exchange routes a message to the queues bound with its routing key.
Routed(p) == ExchangeDeclare.exchange_type = "direct" /\ p.routing_key = QueueBind.routing_key

\* A message outlives a broker restart when it is persistent and its queue
\* is durable.
Survives(p) == QueueDeclare.durable /\ p.delivery_mode = 2

\* RabbitMQClient as constructed: connection and channel are None. `links`
\* counts the connections the client opened and has not seen closed.
NoClient == [connection |-> "none", channel |-> "none", links |-> 0, started |-> FALSE]

\* What connect() can end with: it returns, BlockingConnection raises, or
\* the broker closes the channel on a declaration.
ConnectOutcomes == {"none", "AMQPConnectionError", "AMQPChannelError"}

\* connect() ending with k: a new connection and channel replace the ones
\* the client had, unless BlockingConnection raised.
Connect(cl, k) ==
    CASE k = "none" ->
            [cl EXCEPT !.connection = "open", !.channel = "open", !.links = @ + 1]
      [] k = "AMQPConnectionError" -> cl
      [] OTHER ->
            [cl EXCEPT !.connection = "open", !.channel = "closed", !.links = @ + 1]

\* A client that connects before every operation.
NeedsConnectAlways(cl) == TRUE

\* `not self.connection or self.connection.is_closed`
NeedsConnect(cl) == cl.connection \in {"none", "closed"}

\* What basic_publish can end with on this client: on a closed channel it
\* raises ChannelWrongStateError, on a connection the broker dropped
\* StreamLostError.
PublishPossible(cl, o) ==
    CASE o = "none"                -> cl.connection = "open" /\ cl.channel = "open"
      [] o = "AMQPConnectionError" -> cl.connection \in {"open", "lost"} /\ cl.channel = "open"
      [] o = "AMQPChannelError"    -> cl.connection = "open" \/ cl.channel = "closed"
      [] OTHER                     -> TRUE

\* The client after basic_publish ended with o.
AfterPublish(cl, o) ==
    CASE o = "AMQPConnectionError" ->
            [cl EXCEPT !.connection = "closed", !.channel = "closed", !.links = @ - 1]
      [] o = "AMQPChannelError" -> [cl EXCEPT !.channel = "closed"]
      [] OTHER -> cl

\* One token for every submission.
Uuid4Fixed(used) == CHOOSE i \in RequestIds : TRUE

\* uuid.uuid4(): a token no earlier submission got.
Uuid4(used) == CHOOSE i \in RequestIds : i \notin used

VARIABLES
    published,   \* sequence of bodies, in publish order; a message is its index
    qstate,      \* per message: "ready", "unacked", "acked", "discarded"
    unacked,     \* per consumer: the messages delivered to it and not yet settled
    pc,          \* per worker: where its single thread is
    conn,        \* per worker: RabbitMQConsumer.connection ("none", "open", "closed")
    cur,         \* per worker: the message on_message is working on (NoMsg: none)
    ended,       \* the delivery the latest step ended (NoDelivery: it ended none)
    stored,      \* the documents of the collection, in insertion order
    response,    \* per worker: the API response its handler got for the delivery
    structured,  \* per worker: structured_data of process_message
    reply,       \* what the latest step answered to a submission (NoReply: none)
    client,      \* the producer's RabbitMQClient: connection, channel, the connections
                 \* it opened and has not seen closed, and whether the app has started
    db,          \* per worker: MongoDBClient.client ("none", "open")
    props,       \* per message: the properties it was published with
    input,       \* ParseSpec: the string given to the parsing functions
    parsed,      \* ParseSpec: what they returned for it (NoParse: not called yet)
    streak,      \* RetrySpec's monitor, per message: requeue signals the broker got
                 \* for it (saturating) while every delivery of it that got through
                 \* the handler ended by a transient failure; -1 after another ending
    faults       \* LiveSpec's monitor: faults injected so far

vars ==
    <<published, qstate, unacked, pc, conn, cur, ended, stored, response, structured, reply,
      client, db, props, input, parsed, streak, faults>>

Msgs == 1..Len(published)

\* A delivery: the message, whether callback(message) was called, how the
\* handler ended, the basic_ack / basic_nack calls made, the transport error
\* such a call raised, how the delivery ended, on which worker, what
\* consume() raised to main, and the API response the handler got.
NoDelivery ==
    [msg |-> NoMsg, invoked |-> FALSE, result |-> "none",
     acks |-> 0, requeues |-> 0, discards |-> 0, transport |-> "none",
     fate |-> "none", by |-> 0, raised |-> "none", response |-> NoResponse]

NewDelivery(c, m) == [NoDelivery EXCEPT !.msg = m, !.by = c, !.response = response[c]]

\* The answer to a submission: the HTTP status, the request_id in it, and
\* what publish had raised.
NoReply == [status_code |-> 0, request_id |-> 0, raised |-> "none"]

\* What the parsing functions returned: the period, the value and the
\* exception of the value normalization, the exception and the quarter
\* of _normalize_extracted_data on a candidate made of the string, and the
\* functions called.
NoParse ==
    [period |-> << >>, value |-> Zero, exc |-> "none", handler |-> "none", quarter |-> << >>,
     calls |-> {}]

Init ==
    /\ published = <<>>
    /\ qstate = <<>>
    /\ unacked = [c \in Consumers |-> {}]
    /\ pc = [c \in Consumers |-> "start"]
    /\ conn = [c \in Consumers |-> "none"]
    /\ cur = [c \in Consumers |-> NoMsg]
    /\ ended = NoDelivery
    /\ stored = <<>>
    /\ response = [c \in Consumers |-> NoResponse]
    /\ structured = [c \in Consumers |-> NoData]
    /\ reply = NoReply
    /\ client = NoClient
    /\ db = [c \in Consumers |-> "none"]
    /\ props = <<>>
    /\ input = EmptyString
    /\ parsed = NoParse
    /\ streak = <<>>
    /\ faults = 0

\* ------------------------------------------------- the broker
\* basic_consume with auto_ack=True.
AutoAckOn == TRUE

\* basic_consume(queue, on_message_callback) leaves auto_ack at its default.
AutoAck == FALSE

\* A closed connection returns its unsettled deliveries to the queue.
Requeue(q, S) == [m \in DOMAIN q |-> IF m \in S THEN "ready" ELSE q[m]]

\* What the broker does with a message when a signal for it arrives.
Settle(s) ==
    CASE s = "ack"          -> "acked"
      [] s = "nack_requeue" -> "ready"
      [] s = "nack_discard" -> "discarded"

Min(a, b) == IF a < b THEN a ELSE b

\* ------------------------------------------------- the producer
UsedIds == {published[i].request_id : i \in {j \in Msgs : published[j].kind = "envelope"}}

\* The exchange got a message: it is put on the queue it is routed to, or
\* dropped when there is none.
Enqueue(body, p) ==
    /\ published' = Append(published, body)
    /\ qstate' = Append(qstate, IF Routed(p) THEN "ready" ELSE "unroutable")
    /\ props' = Append(props, p)
    /\ ended' = NoDelivery
    /\ UNCHANGED <<unacked, pc, conn, cur, stored, response, structured, db>>

\* What rabbitmq_client.publish can end with: it returns, or raises.
PublishOutcomes == {"none", "AMQPConnectionError", "AMQPChannelError", "TypeError"}

\* Every failure answered with the generic error.
SubmitExceptGeneric(e) == IF e = "none" THEN 200 ELSE 500

\* The except clauses of submit_financial_data: the status of the
\* HTTPException raised for what publish raised.
SubmitExcept(e) == IF IsInstance(e, {"AMQPConnectionError"}) THEN 503 ELSE 500

\* The status of the response submit_financial_data returns.
SubmitReturn == 200

\* startup_event: connect() ends with k. AMQPConnectionError is logged and
\* the app starts without a connection; any other exception ends the
\* process, and the app is started again.
Startup(k) ==
    /\ ~client.started
    /\ client' = IF k = "AMQPChannelError" THEN NoClient
                 ELSE [Connect(client, k) EXCEPT !.started = TRUE]
    /\ ended' = NoDelivery
    /\ reply' = NoReply
    /\ UNCHANGED <<published, qstate, unacked, pc, conn, cur, stored, response, structured,
                   db, props>>

\* submit_financial_data(data) with data.raw_text = raw_text: publish
\* connects when it has to, which ends with k, and basic_publish ends with o.
Submit(raw_text, k, o) ==
    /\ client.started
    /\ Len(published) < MaxMsgs
    /\ LET request_id == Uuid4(UsedIds)
           connects == NeedsConnect(client)
           connected == IF connects THEN Connect(client, k) ELSE client
           raised == IF connects /\ k # "none" THEN k ELSE o
       IN  /\ connects \/ k = "none"
           /\ IF connects /\ k # "none"
              THEN o = "none" /\ client' = connected
              ELSE PublishPossible(connected, o) /\ client' = AfterPublish(connected, o)
           /\ IF raised = "none"
              THEN /\ Enqueue(Envelope(request_id, raw_text), BasicPublish)
                   /\ reply' = [NoReply EXCEPT !.status_code = SubmitReturn,
                                               !.request_id = request_id]
              ELSE /\ reply' = [NoReply EXCEPT !.status_code = SubmitExcept(raised),
                                               !.raised = raised]
                   /\ ended' = NoDelivery
                   /\ UNCHANGED <<published, qstate, unacked, pc, conn, cur, stored,
                                  response, structured, db, props>>

\* Another publisher puts a body on the queue that is no envelope.
ForeignPublish(k) ==
    /\ Len(published) < MaxMsgs
    /\ Enqueue(Malformed(k), ForeignProperties)
    /\ reply' = NoReply
    /\ UNCHANGED client

\* ------------------------------------------------- the worker
\* An exception leaves on_message: start_consuming raises it, consume()
\* closes the connection and re-raises, main's finally closes again and the
\* process ends. The broker requeues what the connection held.
Escapes(c, d, e) ==
    /\ pc' = [pc EXCEPT ![c] = "exited"]
    /\ conn' = [conn EXCEPT ![c] = "closed"]
    /\ cur' = [cur EXCEPT ![c] = NoMsg]
    /\ ended' = [d EXCEPT !.fate = "escaped", !.raised = ConsumeRaises(e)]
    /\ qstate' = Requeue(qstate, unacked[c])
    /\ unacked' = [unacked EXCEPT ![c] = {}]
    /\ response' = [response EXCEPT ![c] = NoResponse]
    /\ structured' = [structured EXCEPT ![c] = NoData]
    /\ db' = [db EXCEPT ![c] = "none"]
    /\ reply' = NoReply

\* The broker got signal s for the delivery: on_message returns and
\* start_consuming waits for the next delivery.
Settled(c, d, s) ==
    /\ conn[c] = "open"
    /\ pc' = [pc EXCEPT ![c] = "consuming"]
    /\ cur' = [cur EXCEPT ![c] = NoMsg]
    /\ ended' = [d EXCEPT !.fate = "signalled"]
    /\ qstate' = [qstate EXCEPT ![d.msg] = IF AutoAck THEN @ ELSE Settle(s)]
    /\ unacked' = [unacked EXCEPT ![c] = @ \ {d.msg}]
    /\ response' = [response EXCEPT ![c] = NoResponse]
    /\ structured' = [structured EXCEPT ![c] = NoData]
    /\ reply' = NoReply
    /\ UNCHANGED <<conn, db>>

Count(d, s) ==
    CASE s = "ack"          -> [d EXCEPT !.acks = @ + 1]
      [] s = "nack_requeue" -> [d EXCEPT !.requeues = @ + 1]
      [] s = "nack_discard" -> [d EXCEPT !.discards = @ + 1]
      [] OTHER              -> d

\* The rest of on_message once the try block got to x ("returned": the
\* callback returned; otherwise the exception raised in it): the signal is
\* chosen, basic_ack / basic_nack is called and ends with e ("none", or the
\* transport error it raises). basic_ack is inside the try block, so its
\* error passes the except clauses; a basic_nack is inside an except clause.
Dispatch(c, d, x, e) ==
    LET s  == IF x = "returned" THEN OnMessageReturn ELSE OnMessageExcept(x)
        d1 == Count(d, s)
        s2 == OnMessageExcept(e)
    IN  IF s = "raise" THEN e = "none" /\ Escapes(c, d, x)
        ELSE IF e = "none" THEN Settled(c, d1, s)
        ELSE IF x = "returned" /\ s2 # "raise"
        THEN Escapes(c, [Count(d1, s2) EXCEPT !.transport = e], e)
        ELSE Escapes(c, [d1 EXCEPT !.transport = e], e)

\* process_message ended with x: it returned, or raised x.
HandlerEnded(c, m, x, e) ==
    LET r == IF x = "returned" THEN x ELSE ProcessMessageExcept(x)
    IN  Dispatch(c, [NewDelivery(c, m) EXCEPT !.invoked = TRUE, !.result = r], r, e)

\* main: consume() connects, declares the topology, sets the prefetch and
\* enters start_consuming; or the connection attempt fails and main exits.
Start(c, ok) ==
    /\ pc[c] = "start"
    /\ IF ok
       THEN /\ pc' = [pc EXCEPT ![c] = "consuming"]
            /\ conn' = [conn EXCEPT ![c] = "open"]
            /\ db' = [db EXCEPT ![c] = "open"]
       ELSE /\ pc' = [pc EXCEPT ![c] = "exited"]
            /\ UNCHANGED <<conn, db>>
    /\ ended' = NoDelivery
    /\ reply' = NoReply
    /\ UNCHANGED <<published, qstate, unacked, cur, stored, response, structured,
                   client, props>>

\* The broker pushes a ready message to a consumer within its prefetch window.
Deliver(c, m) ==
    /\ conn[c] = "open"
    /\ qstate[m] = "ready"
    /\ WithinPrefetch(Cardinality(unacked[c]))
    /\ qstate' = [qstate EXCEPT ![m] = IF AutoAck THEN "acked" ELSE "unacked"]
    /\ unacked' = [unacked EXCEPT ![c] = @ \cup {m}]
    /\ ended' = NoDelivery
    /\ reply' = NoReply
    /\ UNCHANGED <<published, pc, conn, cur, stored, response, structured,
                   client, db, props>>


SignalOutcomes == {"none"} \cup AMQPErrors

\* on_message up to the first external call: decode and deserialize the
\* body, enter process_message, read raw_text and request_id. A body that
\* does not deserialize, or a handler that ends at once, is dispatched.
OnMessage(c, m, e) ==
    /\ pc[c] = "consuming"
    /\ m \in unacked[c]
    /\ LET body == published[m]
       IN  IF DeserializeExc(body) # "none"
           THEN Dispatch(c, NewDelivery(c, m), DeserializeExc(body), e)
           ELSE IF body.kind = "non_object"
           THEN HandlerEnded(c, m, "AttributeError", e)
           ELSE IF NotRawText(body)
           THEN HandlerEnded(c, m, "returned", e)
           ELSE /\ e = "none"
                /\ pc' = [pc EXCEPT ![c] = "extract"]
                /\ cur' = [cur EXCEPT ![c] = m]
                /\ ended' = NoDelivery
                /\ reply' = NoReply
                /\ UNCHANGED <<conn, qstate, unacked, response, structured, db>>
    /\ UNCHANGED <<published, stored, client, props>>

\* openai_client.extract_financial_data(raw_text) up to the API call, which
\* ends with outcome o: a response to work on, or an API error, which
\* on_message dispatches.
Extract(c, o, e) ==
    /\ pc[c] = "extract"
    /\ IF o.exc = "none"
       THEN /\ e = "none"
            /\ pc' = [pc EXCEPT ![c] = "normalize"]
            /\ response' = [response EXCEPT ![c] = o.response]
            /\ ended' = NoDelivery
            /\ reply' = NoReply
            /\ UNCHANGED <<conn, cur, qstate, unacked, structured, db>>
       ELSE HandlerEnded(c, cur[c], o.exc, e)
    /\ UNCHANGED <<published, stored, client, props>>

\* The rest of extract_financial_data: the JSON is located in the response
\* and normalized into structured_data, or an exception is raised, which
\* on_message dispatches.
Normalize(c, e) ==
    /\ pc[c] = "normalize"
    /\ LET r == ExtractFinancialData(response[c], published[cur[c]].raw_text)
       IN  IF r.exc = "none"
           THEN /\ e = "none"
                /\ pc' = [pc EXCEPT ![c] = "store"]
                /\ structured' = [structured EXCEPT ![c] = r.data]
                /\ ended' = NoDelivery
                /\ reply' = NoReply
                /\ UNCHANGED <<conn, cur, qstate, unacked, response, db>>
           ELSE HandlerEnded(c, cur[c], r.exc, e)
    /\ UNCHANGED <<published, stored, client, props>>

\* A document that does not carry the request_id of the message.
DocumentWithoutId(body, data) ==
    [request_id |-> 0, raw_text |-> data.raw_text,
     company |-> data.company, metric |-> data.metric, value |-> data.value,
     currency |-> data.currency, quarter |-> data.quarter,
     original_value |-> data.original_value]

\* structured_data.dict() with metadata['request_id'] = request_id, the
\* request_id of the message.
Document(body, data) ==
    [request_id |-> body.request_id, raw_text |-> data.raw_text,
     company |-> data.company, metric |-> data.metric, value |-> data.value,
     currency |-> data.currency, quarter |-> data.quarter,
     original_value |-> data.original_value]

\* An insert that keeps one document per request_id.
InsertOneUnlessPresent(coll, doc) ==
    IF \E i \in 1..Len(coll) : coll[i].request_id = doc.request_id THEN coll
    ELSE Append(coll, doc)

\* An insert that adds the document twice.
InsertOneTwice(coll, doc) == Append(Append(coll, doc), doc)

\* collection.insert_one(document): the document is added, whatever the
\* collection holds.
InsertOne(coll, doc) == Append(coll, doc)

\* mongodb_client.insert_one(document) ends with outcome o; when it returns
\* process_message returns, when it raises on_message dispatches.
Store(c, o, e) ==
    /\ pc[c] = "store"
    /\ IF o = "ok"
       THEN /\ e = "none"
            /\ stored' = InsertOne(stored, Document(published[cur[c]], structured[c]))
            /\ pc' = [pc EXCEPT ![c] = "ack"]
            /\ ended' = NoDelivery
            /\ reply' = NoReply
            /\ UNCHANGED <<conn, cur, qstate, unacked, response, structured, db>>
       ELSE /\ HandlerEnded(c, cur[c], o, e)
            /\ UNCHANGED stored
    /\ UNCHANGED <<published, client, props>>

\* callback(message) returned after the insert: ch.basic_ack ends with e.
Ack(c, e) ==
    /\ pc[c] = "ack"
    /\ HandlerEnded(c, cur[c], "returned", e)
    /\ UNCHANGED <<published, stored, client, props>>

\* A close() that leaves the connection as it is.
CloseNothing(connection) == connection

\* RabbitMQConsumer.close(): closes the connection when there is one that
\* is not closed.
Close(connection) == IF connection \in {"open", "lost"} THEN "closed" ELSE connection

\* What connection.close() of a connection the broker dropped can end with.
CloseOutcomes == {"none", "AMQPConnectionError"}

\* pika's connection.close() ending with x: on a closed connection it raises
\* ConnectionWrongStateError, on an open one it returns.
ConnectionClose(connection, x) ==
    CASE connection = "closed" -> "ConnectionWrongStateError"
      [] connection = "lost"   -> x
      [] OTHER                 -> "none"

\* A close() that calls connection.close() whenever there is a connection.
CloseRaisesUnguarded(connection, x) ==
    IF connection # "none" THEN ConnectionClose(connection, x) ELSE "none"

\* What RabbitMQConsumer.close() raises: connection.close() is called only
\* under `self.connection and not self.connection.is_closed`.
CloseRaises(connection, x) ==
    IF connection \in {"open", "lost"} THEN ConnectionClose(connection, x) ELSE "none"

\* self.client.close(): MongoClient.close() returns; on None it is an
\* AttributeError.
ClientClose(cl) == IF cl = "none" THEN "AttributeError" ELSE "none"

\* What MongoDBClient.close() raises: self.client.close() is called only
\* under `if self.client`.
MongoCloseRaises(cl) == IF cl # "none" THEN ClientClose(cl) ELSE "none"

\* MongoDBClient.close(): the client is closed and forgotten.
MongoClose(cl) == IF cl # "none" THEN "none" ELSE cl

\* The first of the exceptions that is one.
FirstRaised(excs) ==
    IF \E i \in 1..Len(excs) : excs[i] # "none"
    THEN excs[First({i \in 1..Len(excs) : excs[i] # "none"})]
    ELSE "none"

\* SIGINT / SIGTERM: signal_handler closes both connections and sys.exit(0)
\* unwinds the thread wherever it is; main's finally closes both again. The
\* broker connection's close() ends with x. What ends the process is the
\* SystemExit, or what a close() raised; before the handlers are installed
\* the signal ends the process at once.
Shutdown(c, x) ==
    /\ pc[c] # "exited"
    /\ x = "none" \/ conn[c] = "lost"
    /\ pc' = [pc EXCEPT ![c] = "exited"]
    /\ conn' = [conn EXCEPT ![c] = Close(Close(@))]
    /\ db' = [db EXCEPT ![c] = MongoClose(MongoClose(@))]
    /\ cur' = [cur EXCEPT ![c] = NoMsg]
    /\ response' = [response EXCEPT ![c] = NoResponse]
    /\ structured' = [structured EXCEPT ![c] = NoData]
    /\ reply' = NoReply
    /\ LET handler == FirstRaised(<<CloseRaises(conn[c], x), MongoCloseRaises(db[c])>>)
           finally == FirstRaised(<<CloseRaises(Close(conn[c]), "none"),
                                    MongoCloseRaises(MongoClose(db[c]))>>)
           raised  == IF finally # "none" THEN finally
                      ELSE IF handler # "none" THEN handler
                      ELSE "SystemExit"
       IN  ended' = IF pc[c] \in {"extract", "normalize", "store", "ack"}
                    THEN [NewDelivery(c, cur[c]) EXCEPT
                            !.invoked = TRUE,
                            !.result = IF pc[c] = "ack" THEN "returned" ELSE "none",
                            !.fate = "abandoned", !.raised = raised]
                    ELSE IF pc[c] = "start" THEN NoDelivery
                    ELSE [NoDelivery EXCEPT !.by = c, !.fate = "shutdown", !.raised = raised]
    /\ qstate' = IF conn'[c] = "open" THEN qstate ELSE Requeue(qstate, unacked[c])
    /\ unacked' = [unacked EXCEPT ![c] = IF conn'[c] = "open" THEN @ ELSE {}]
    /\ UNCHANGED <<published, stored, client, props>>

\* start_consuming finds the connection gone while it waits for a delivery:
\* it raises, consume() closes and re-raises, main exits.
ConnectionLost(c) ==
    /\ pc[c] = "consuming"
    /\ conn[c] = "lost"
    /\ Escapes(c, [NoDelivery EXCEPT !.by = c], "AMQPConnectionError")
    /\ UNCHANGED <<published, stored, client, props>>

\* The broker is restarted: every connection is dropped, which a client
\* sees at its next call; the queue keeps the messages that outlive a
\* restart, the delivered ones included, and loses the others.
BrokerRestart ==
    /\ qstate' = [m \in DOMAIN qstate |->
                    IF qstate[m] \in {"ready", "unacked"}
                    THEN IF Survives(props[m]) THEN "ready" ELSE "lost"
                    ELSE qstate[m]]
    /\ unacked' = [c \in Consumers |-> {}]
    /\ conn' = [c \in Consumers |-> IF conn[c] = "open" THEN "lost" ELSE conn[c]]
    /\ client' = [client EXCEPT !.connection = IF @ = "open" THEN "lost" ELSE @]
    /\ ended' = [NoDelivery EXCEPT !.fate = "broker_restart"]
    /\ reply' = NoReply
    /\ UNCHANGED <<published, pc, cur, stored, response, structured, db, props>>

\* The worker process is started again: a new RabbitMQConsumer singleton.
Restart(c) ==
    /\ pc[c] = "exited"
    /\ pc' = [pc EXCEPT ![c] = "start"]
    /\ conn' = [conn EXCEPT ![c] = "none"]
    /\ ended' = NoDelivery
    /\ reply' = NoReply
    /\ UNCHANGED <<published, qstate, unacked, cur, stored, response, structured,
                   client, db, props>>

\* ------------------------------------------------- specifications
\* Spec: both workers, every outcome of every call; the monitors rest.
Plain == UNCHANGED <<input, parsed, streak, faults>>

Next ==
    \/ \E k \in ConnectOutcomes : Startup(k) /\ Plain
    \/ \E t \in RawTexts, k \in ConnectOutcomes, o \in PublishOutcomes :
          Submit(t, k, o) /\ Plain
    \/ \E k \in MalformedKinds : ForeignPublish(k) /\ Plain
    \/ \E c \in Consumers, ok \in BOOLEAN : Start(c, ok) /\ Plain
    \/ \E c \in Consumers, m \in Msgs : Deliver(c, m) /\ Plain
    \/ \E c \in Consumers, m \in Msgs, e \in SignalOutcomes : OnMessage(c, m, e) /\ Plain
    \/ \E c \in Consumers, o \in ExtractOutcomes, e \in SignalOutcomes :
          Extract(c, o, e) /\ Plain
    \/ \E c \in Consumers, e \in SignalOutcomes : Normalize(c, e) /\ Plain
    \/ \E c \in Consumers, o \in StoreOutcomes, e \in SignalOutcomes :
          Store(c, o, e) /\ Len(stored') <= MaxStored /\ Plain
    \/ \E c \in Consumers, e \in SignalOutcomes : Ack(c, e) /\ Plain
    \/ \E c \in Consumers, x \in CloseOutcomes : Shutdown(c, x) /\ Plain
    \/ \E c \in Consumers : Restart(c) /\ Plain

Spec == Init /\ [][Next]_vars


\* RetrySpec: one worker, every outcome of every call; streak follows the
\* deliveries of each message.
StreakAfter(d) ==
    LET base == IF Len(published') > Len(published) THEN Append(streak, 0) ELSE streak
    IN  IF d.msg = NoMsg \/ (d.fate = "abandoned" /\ d.result = "none") THEN base
        ELSE IF d.result \in TransientErrors
        THEN [base EXCEPT ![d.msg] =
                IF @ >= 0 /\ d.transport = "none" THEN Min(@ + 1, MaxRequeues) ELSE @]
        ELSE [base EXCEPT ![d.msg] = -1]

Tracked == streak' = StreakAfter(ended') /\ UNCHANGED <<input, parsed, faults>>

RetryNext ==
    \/ \E k \in ConnectOutcomes : Startup(k) /\ Tracked
    \/ \E t \in RawTexts, k \in ConnectOutcomes, o \in PublishOutcomes :
          Submit(t, k, o) /\ Tracked
    \/ \E k \in MalformedKinds : ForeignPublish(k) /\ Tracked
    \/ \E ok \in BOOLEAN : Start(1, ok) /\ Tracked
    \/ \E m \in Msgs : Deliver(1, m) /\ Tracked
    \/ \E m \in Msgs, e \in SignalOutcomes : OnMessage(1, m, e) /\ Tracked
    \/ \E o \in ExtractOutcomes, e \in SignalOutcomes : Extract(1, o, e) /\ Tracked
    \/ \E e \in SignalOutcomes : Normalize(1, e) /\ Tracked
    \/ \E o \in StoreOutcomes, e \in SignalOutcomes :
          Store(1, o, e) /\ Len(stored') <= MaxStored /\ Tracked
    \/ \E e \in SignalOutcomes : Ack(1, e) /\ Tracked
    \/ \E x \in CloseOutcomes : Shutdown(1, x) /\ Tracked
    \/ Restart(1) /\ Tracked

RetrySpec == Init /\ [][RetryNext]_vars

\* LiveSpec: the broker keeps delivering and an exited worker is started
\* again; the handler ends by returning or by a transient failure; transient
\* failures, transport errors and shutdowns happen MaxFaults times in all.
Budgeted ==
    /\ faults' = faults +
          (IF \/ ended'.result \in TransientErrors
              \/ \E c \in Consumers : pc[c] # "exited" /\ pc'[c] = "exited"
           THEN 1 ELSE 0)
    /\ faults' <= MaxFaults
    /\ UNCHANGED <<input, parsed, streak>>

LiveStartup == Startup("none") /\ Budgeted
LiveSubmit == \E t \in RawTexts : Submit(t, "none", "none") /\ Budgeted
LiveStart(c) == Start(c, TRUE) /\ Budgeted
LiveDeliver(c) == \E m \in Msgs : Deliver(c, m) /\ Budgeted
LiveOnMessage(c) == \E m \in Msgs, e \in SignalOutcomes : OnMessage(c, m, e) /\ Budgeted
LiveExtract(c) ==
    \E o \in ApiOutcomes({JsonReply(GoodMembers)}), e \in SignalOutcomes :
        Extract(c, o, e) /\ Budgeted
LiveNormalize(c) == \E e \in SignalOutcomes : Normalize(c, e) /\ Budgeted
LiveStore(c) ==
    \E o \in {"ok", "ConnectionFailure"}, e \in SignalOutcomes : Store(c, o, e) /\ Budgeted
LiveAck(c) == \E e \in SignalOutcomes : Ack(c, e) /\ Budgeted
LiveShutdown(c) == \E x \in CloseOutcomes : Shutdown(c, x) /\ Budgeted
LiveRestart(c) == Restart(c) /\ Budgeted

LiveNext ==
    \/ LiveStartup
    \/ LiveSubmit
    \/ \E c \in Consumers : LiveStart(c)
    \/ \E c \in Consumers : LiveDeliver(c)
    \/ \E c \in Consumers : LiveOnMessage(c)
    \/ \E c \in Consumers : LiveExtract(c)
    \/ \E c \in Consumers : LiveNormalize(c)
    \/ \E c \in Consumers : LiveStore(c)
    \/ \E c \in Consumers : LiveAck(c)
    \/ \E c \in Consumers : LiveShutdown(c)
    \/ \E c \in Consumers : LiveRestart(c)

\* The single thread of a worker runs on whenever it can, an exited worker
\* is started again, and the broker pushes a ready message to a consumer with
\* room in its prefetch window.
LiveFairness ==
    \A c \in Consumers :
        /\ WF_vars(LiveStart(c))
        /\ WF_vars(LiveDeliver(c))
        /\ WF_vars(LiveOnMessage(c))
        /\ WF_vars(LiveExtract(c))
        /\ WF_vars(LiveNormalize(c))
        /\ WF_vars(LiveStore(c))
        /\ WF_vars(LiveAck(c))
        /\ WF_vars(LiveRestart(c))

LiveSpec == Init /\ [][LiveNext]_vars /\ LiveFairness

\* AdapterSpec: one envelope was submitted, one worker handles it, the API
\* answers with any response text of up to MaxText tokens, and every call
\* ends in every way it can.
Texts(n) == UNION {[1..k -> JsonTokens] : k \in 0..n}

\* The texts in which the member list stands in an object of its own.
HasObject(text) ==
    \E i \in 1..(Len(text) - 2) : SubSeq(text, i, i + 2) = <<"{", "members", "}">>

\* The candidates the API answers with: the one asked for, and that one with
\* one field missing or with another value.
Candidates ==
    {GoodMembers}
        \cup {[GoodMembers EXCEPT ![f] = Absent] : f \in FieldNames}
        \cup {[GoodMembers EXCEPT !.value = v] :
                v \in {Str(<<"N/A">>), Str(<<"$", "5.3", "M">>), Str(<<"0">>), JsonNumber}}
        \cup {[GoodMembers EXCEPT !.quarter = q] :
                q \in {Str(<<"2024", "Q1">>), Str(<<"q3", "2023">>), Str(<<"FY2024">>),
                       Str(<<"first", "quarter", "of", "2024">>), Str(EmptyString), JsonNull}}
        \cup {[GoodMembers EXCEPT !.metric = Str(<<"revenue">>)],
              [GoodMembers EXCEPT !.currency = Str(<<"USD">>)],
              [GoodMembers EXCEPT !.company = JsonNull]}

AdapterResponses ==
    UNION {{[text |-> t, members |-> m] :
                m \in IF HasObject(t) THEN Candidates ELSE {NoFields}} : t \in Texts(MaxText)}

AdapterRawTexts ==
    RawTexts \cup {<<"Revenue", "rose", "in", "the", "third", "quarter", "of", "2023">>,
                   <<"Revenue", "rose">>}

\* The state after the first submission.
AdapterInit ==
    /\ \E t \in AdapterRawTexts : published = <<Envelope(Uuid4({}), t)>>
    /\ qstate = <<"ready">>
    /\ unacked = [c \in Consumers |-> {}]
    /\ pc = [c \in Consumers |-> "start"]
    /\ conn = [c \in Consumers |-> "none"]
    /\ cur = [c \in Consumers |-> NoMsg]
    /\ ended = NoDelivery
    /\ stored = <<>>
    /\ response = [c \in Consumers |-> NoResponse]
    /\ structured = [c \in Consumers |-> NoData]
    /\ reply = [NoReply EXCEPT !.status_code = SubmitReturn, !.request_id = Uuid4({})]
    /\ client = [Connect(NoClient, "none") EXCEPT !.started = TRUE]
    /\ db = [c \in Consumers |-> "none"]
    /\ props = <<BasicPublish>>
    /\ input = EmptyString
    /\ parsed = NoParse
    /\ streak = <<>>
    /\ faults = 0

AdapterNext ==
    \/ \E ok \in BOOLEAN : Start(1, ok) /\ Plain
    \/ \E m \in Msgs : Deliver(1, m) /\ Plain
    \/ \E m \in Msgs, e \in SignalOutcomes : OnMessage(1, m, e) /\ Plain
    \/ \E o \in ApiOutcomes(AdapterResponses), e \in SignalOutcomes : Extract(1, o, e) /\ Plain
    \/ \E e \in SignalOutcomes : Normalize(1, e) /\ Plain
    \/ \E o \in StoreOutcomes, e \in SignalOutcomes : Store(1, o, e) /\ Plain
    \/ \E e \in SignalOutcomes : Ack(1, e) /\ Plain

AdapterSpec == AdapterInit /\ [][AdapterNext]_vars

\* BrokerSpec: the producer, other publishers, one worker and a broker that
\* can be restarted at any moment; every call ends in every way it can.
BrokerNext ==
    \/ \E k \in ConnectOutcomes : Startup(k) /\ Plain
    \/ \E t \in RawTexts, k \in ConnectOutcomes, o \in PublishOutcomes :
          Submit(t, k, o) /\ Plain
    \/ \E k \in MalformedKinds \cup ObjectKinds : ForeignPublish(k) /\ Plain
    \/ \E ok \in BOOLEAN : Start(1, ok) /\ Plain
    \/ \E m \in Msgs : Deliver(1, m) /\ Plain
    \/ \E m \in Msgs, e \in SignalOutcomes : OnMessage(1, m, e) /\ Plain
    \/ \E o \in ExtractOutcomes, e \in SignalOutcomes : Extract(1, o, e) /\ Plain
    \/ \E e \in SignalOutcomes : Normalize(1, e) /\ Plain
    \/ \E o \in StoreOutcomes, e \in SignalOutcomes :
          Store(1, o, e) /\ Len(stored') <= MaxStored /\ Plain
    \/ \E e \in SignalOutcomes : Ack(1, e) /\ Plain
    \/ ConnectionLost(1) /\ Plain
    \/ \E x \in CloseOutcomes : Shutdown(1, x) /\ Plain
    \/ Restart(1) /\ Plain
    \/ BrokerRestart /\ Plain

BrokerSpec == Init /\ [][BrokerNext]_vars

\* ParseSpec: one of the parsing functions is called on a string of up to
\* MaxWords tokens, and extract_quarter once more on its own result.
PeriodWords == {"Q1", "q3", "2024", "2023", "Third", "quarter", "of", "in"}

ValueWords == {"$", "5.3", "-2", "thousand", "million", "B", "trillion", "to", "and"}

ParseInputs ==
    UNION {[1..k -> PeriodWords] \cup [1..k -> ValueWords] : k \in 0..MaxWords}

ParseInit ==
    /\ input \in ParseInputs
    /\ parsed = NoParse
    /\ published = <<>>
    /\ qstate = <<>>
    /\ unacked = [c \in Consumers |-> {}]
    /\ pc = [c \in Consumers |-> "start"]
    /\ conn = [c \in Consumers |-> "none"]
    /\ cur = [c \in Consumers |-> NoMsg]
    /\ ended = NoDelivery
    /\ stored = <<>>
    /\ response = [c \in Consumers |-> NoResponse]
    /\ structured = [c \in Consumers |-> NoData]
    /\ reply = NoReply
    /\ client = NoClient
    /\ db = [c \in Consumers |-> "none"]
    /\ props = <<>>
    /\ streak = <<>>
    /\ faults = 0

Pure ==
    UNCHANGED <<published, qstate, unacked, pc, conn, cur, ended, stored, response,
                structured, reply, client, db, props, streak, faults>>

\* extract_quarter(input)
CallExtractQuarter ==
    /\ parsed.calls \subseteq {"reparse"}
    /\ parsed' = [parsed EXCEPT !.period = ExtractQuarter(input),
                                !.calls = @ \cup {"extract_quarter"}]
    /\ UNCHANGED input

\* normalize_financial_value(input)
CallNormalizeFinancialValue ==
    /\ parsed.calls = {}
    /\ LET r == NormalizeFinancialValue(Str(input))
       IN  parsed' = [parsed EXCEPT !.value = r.value, !.exc = r.exc,
                                   !.calls = @ \cup {"normalize_financial_value"}]
    /\ UNCHANGED input

\* _normalize_extracted_data on the candidate whose value is the input and
\* whose quarter is empty, with the input as raw_text
CallNormalizeExtractedData ==
    /\ parsed.calls = {}
    /\ LET r == NormalizeExtractedData(
                    [exc |-> "none", kind |-> "object",
                     fields |-> [GoodMembers EXCEPT !.value = Str(input),
                                                    !.quarter = Str(EmptyString)]],
                    input)
       IN  parsed' = [parsed EXCEPT !.handler = r.exc, !.quarter = r.data.quarter,
                                   !.value = r.data.value,
                                   !.calls = @ \cup {"_normalize_extracted_data"}]
    /\ UNCHANGED input

\* The period extract_quarter returned is given to it again.
Reparse ==
    /\ "extract_quarter" \in parsed.calls
    /\ "reparse" \notin parsed.calls
    /\ parsed.period # << >>
    /\ input' = parsed.period
    /\ parsed' = [NoParse EXCEPT !.calls = {"reparse"}]

ParseNext ==
    \/ CallExtractQuarter /\ Pure
    \/ CallNormalizeFinancialValue /\ Pure
    \/ CallNormalizeExtractedData /\ Pure
    \/ Reparse /\ Pure

ParseSpec == ParseInit /\ [][ParseNext]_vars

\* ------------------------------------------------- claims
Calls(d) == d.acks + d.requeues + d.discards

\* A delivery ended in the latest step, otherwise than by a shutdown.
Ended == ended.msg # NoMsg /\ ended.fate # "abandoned"

\* C1: every delivery that ends (the handler returned or raised anything but
\* a broker transport error) got exactly one acknowledgment signal: one
\* basic_ack or basic_nack call, never zero or two.
C1_ExactlyOneSignal ==
    Ended /\ ~IsInstance(ended.result, AMQPErrors) => Calls(ended) = 1

\* C2: a delivery whose handler raised a transient failure got exactly one
\* nack-with-requeue, no ack and no nack-without-requeue, and its message is
\* back in the queue.
C2_TransientRequeued ==
    Ended /\ IsInstance(ended.result, TransientErrors) =>
        /\ ended.requeues = 1 /\ ended.acks = 0 /\ ended.discards = 0
        /\ qstate[ended.msg] = "ready"

C2_Witness ==
    /\ Ended /\ ended.result = "RateLimitError" /\ ended.fate = "signalled"
    /\ ended.requeues = 1 /\ qstate[ended.msg] = "ready"

\* The messages the broker has removed stay removed and are not delivered.
Removed(m, how) ==
    qstate[m] = how => qstate'[m] = how /\ \A c \in Consumers : m \notin unacked'[c]

\* C3 as stated: a delivery whose handler raised a permanent failure got
\* exactly one nack-without-requeue, no ack and no requeue, and its message
\* is out of the queue for good.
C3_PermanentDiscarded ==
    Ended /\ IsInstance(ended.result, {"ValueError"}) =>
        /\ ended.discards = 1 /\ ended.acks = 0 /\ ended.requeues = 0
        /\ qstate[ended.msg] = "discarded"

\* C3 as amended: ... exactly one nack-without-requeue call, no ack and no
\* requeue; when the broker got it the message is discarded and never
\* delivered again, when the call raised a transport error the message is
\* back in the queue.
C3_Amended ==
    /\ [](Ended /\ IsInstance(ended.result, {"ValueError"}) =>
            /\ ended.discards = 1 /\ ended.acks = 0 /\ ended.requeues = 0
            /\ ended.transport = "none" => qstate[ended.msg] = "discarded"
            /\ ended.transport # "none" => qstate[ended.msg] = "ready")
    /\ [][\A m \in Msgs : Removed(m, "discarded")]_vars

C3_Witness ==
    /\ Ended /\ ended.result = "ValueError" /\ ended.fate = "signalled"
    /\ ended.discards = 1 /\ qstate[ended.msg] = "discarded"

\* C4 as stated: a delivery whose handler returned got exactly one ack and no
\* nack, and its message is out of the queue for good.
C4_ReturnAcked ==
    Ended /\ ended.result = "returned" =>
        /\ ended.acks = 1 /\ ended.requeues = 0 /\ ended.discards = 0
        /\ qstate[ended.msg] = "acked"

\* C4 as amended: ... exactly one basic_ack call and no nack; when the broker
\* got it the message is acked and never delivered again, when the call
\* raised a transport error the message is back in the queue.
C4_Amended ==
    /\ [](Ended /\ ended.result = "returned" =>
            /\ ended.acks = 1 /\ ended.requeues = 0 /\ ended.discards = 0
            /\ ended.transport = "none" => qstate[ended.msg] = "acked"
            /\ ended.transport # "none" => qstate[ended.msg] = "ready")
    /\ [][\A m \in Msgs : Removed(m, "acked")]_vars

C4_Witness ==
    /\ Ended /\ ended.result = "returned" /\ ended.fate = "signalled"
    /\ ended.acks = 1 /\ qstate[ended.msg] = "acked"
    /\ published[ended.msg].raw_text # EmptyString

\* C5: a delivery of a body that is not a well-formed envelope never reaches
\* the handler and gets exactly one nack-without-requeue, no requeue, no ack.
C5_MalformedDiscarded ==
    Ended /\ published[ended.msg].kind \in MalformedKinds =>
        /\ ~ended.invoked
        /\ ended.discards = 1 /\ ended.requeues = 0 /\ ended.acks = 0

\* C6: a consumer holds at most one delivered and unsettled message, the one
\* its handler is working on, and no message is held by two consumers.
C6_OneInFlight ==
    /\ \A c \in Consumers :
          /\ Cardinality(unacked[c]) <= 1
          /\ cur[c] # NoMsg => unacked[c] = {cur[c]}
          /\ \A m \in unacked[c] : qstate[m] = "unacked"
    /\ \A c1, c2 \in Consumers : c1 # c2 => unacked[c1] \cap unacked[c2] = {}

C6_Witness ==
    /\ \A c \in Consumers : cur[c] # NoMsg /\ unacked[c] = {cur[c]}
    /\ \E m \in Msgs : qstate[m] = "unacked"


\* C7: a message whose handler raised a transient failure in every delivery
\* that got through the handler is still in the queue, whatever the number
\* of requeues: it is neither acked nor discarded.
C7_NoRetryCap ==
    \A m \in Msgs : streak[m] >= 0 => qstate[m] \in {"ready", "unacked"}

C7_Witness ==
    \E m \in Msgs : streak[m] = MaxRequeues /\ qstate[m] = "ready" /\ Ended
                    /\ ended.msg = m /\ ended.requeues = 1

HasText(m) == m \in Msgs /\ published[m].kind = "envelope" /\ published[m].raw_text # EmptyString

StoredFor(m) == \E i \in 1..Len(stored) : stored[i].request_id = published[m].request_id

\* C8: every published envelope with non-empty raw_text is eventually acked;
\* an acked one has a stored record with its request_id; a message leaves the
\* queue only by the ack or the nack-without-requeue of one of its deliveries.
C8_AtLeastOnce ==
    /\ \A m \in 1..MaxMsgs : HasText(m) ~> (m \in Msgs /\ qstate[m] = "acked")
    /\ [](\A m \in Msgs : HasText(m) /\ qstate[m] = "acked" => StoredFor(m))
    /\ [][\A m \in Msgs :
            qstate[m] \in {"ready", "unacked"} /\ qstate'[m] \notin {"ready", "unacked"} =>
                /\ ended'.msg = m /\ ended'.fate = "signalled"
                /\ ended'.acks + ended'.discards = 1]_vars

C8_Witness ==
    \E m \in Msgs : HasText(m) /\ qstate[m] = "acked" /\ StoredFor(m) /\ faults = MaxFaults

\* C9: the envelopes on the queue have distinct request_ids, and every
\* insert adds a document whatever the collection holds: nothing stands in
\* the way of two stored records with one request_id.
C9_NoDeduplication ==
    /\ [](\A i, j \in Msgs :
            published[i].kind = "envelope" /\ published[j].kind = "envelope" /\ i # j =>
                published[i].request_id # published[j].request_id)
    /\ [][\A c \in Consumers :
            pc[c] = "store" /\ pc'[c] = "ack" =>
                /\ Len(stored') = Len(stored) + 1
                /\ stored'[Len(stored')].request_id = published[cur[c]].request_id]_vars

\* Two stored records carry the request_id of an envelope published once.
C9_Witness ==
    \E i, j \in 1..Len(stored) :
        /\ i # j
        /\ stored[i].request_id = stored[j].request_id
        /\ Cardinality({m \in Msgs : published[m].kind = "envelope"
                           /\ published[m].request_id = stored[i].request_id}) = 1

\* C10: when basic_ack or basic_nack raised a transport error, no further
\* signal was sent for the delivery, the error reached the caller of
\* consume(), the consume loop is over with the connection closed, and the
\* message is back in the queue, held by no consumer.
C10_TransportErrorEscapes ==
    ended.transport # "none" =>
        /\ Calls(ended) = 1
        /\ ended.fate = "escaped"
        /\ ended.raised = ended.transport
        /\ pc[ended.by] = "exited"
        /\ conn[ended.by] = "closed"
        /\ qstate[ended.msg] = "ready"
        /\ \A c \in Consumers : ended.msg \notin unacked[c]

C10_Witness ==
    /\ ended.transport = "AMQPChannelError" /\ ended.acks = 1
    /\ ended.raised = "AMQPChannelError" /\ conn[ended.by] = "closed"
    /\ qstate[ended.msg] = "ready"

\* The response parses as a JSON object that lacks one of the five fields.
LacksField(r) ==
    /\ JsonLoads(r.text, r.members).kind = "object"
    /\ \E f \in FieldNames : JsonLoads(r.text, r.members).fields[f] = Absent

\* C11: a response that parses as a JSON object lacking a required field
\* makes the adapter raise ValueError after the field check alone, with no
\* value normalized and nothing stored; the dispatcher sends exactly one
\* nack-without-requeue and no requeue or ack, and the broker, when it gets
\* the nack, discards the message.
C11_MissingFieldDiscarded ==
    /\ [](Ended /\ LacksField(ended.response) =>
            /\ ended.result = "ValueError"
            /\ ended.discards = 1 /\ ended.requeues = 0 /\ ended.acks = 0
            /\ ended.transport = "none" => qstate[ended.msg] = "discarded")
    /\ [][\A c \in Consumers :
            pc[c] = "normalize" /\ pc'[c] # "normalize" /\ LacksField(response[c]) =>
                /\ ExtractFinancialData(response[c], published[cur[c]].raw_text).steps
                      = <<"required_fields">>
                /\ ended'.msg = cur[c] /\ ended'.by = c
                /\ structured'[c] = NoData
                /\ stored' = stored]_vars

C11_Witness ==
    /\ Ended /\ ended.response = JsonReply([GoodMembers EXCEPT !.currency = Absent])
    /\ ended.result = "ValueError" /\ ended.discards = 1 /\ ended.fate = "signalled"
    /\ qstate[ended.msg] = "discarded" /\ stored = <<>>

\* C12: no envelope on the queue has an empty raw_text (a submission with
\* an empty raw_text is rejected before anything is published).
C12_EmptyTextRejected ==
    \A m \in Msgs : published[m].kind = "envelope" => published[m].raw_text # EmptyString

Envelopes == {m \in Msgs : published[m].kind = "envelope"}

\* C13: the envelopes carry pairwise distinct request_ids; a successful
\* submission answers with a request_id no earlier envelope has and publishes
\* exactly one envelope, which carries that request_id; no envelope is
\* published otherwise.
C13_UniqueRequestIds ==
    /\ [](\A i, j \in Envelopes : i # j => published[i].request_id # published[j].request_id)
    /\ [][reply'.status_code = SubmitReturn =>
            /\ reply'.request_id \notin UsedIds
            /\ Len(published') = Len(published) + 1
            /\ published'[Len(published')].kind = "envelope"
            /\ published'[Len(published')].request_id = reply'.request_id]_vars
    /\ [][Len(published') > Len(published) /\ published'[Len(published')].kind = "envelope" =>
            /\ reply'.status_code = SubmitReturn
            /\ reply'.request_id = published'[Len(published')].request_id]_vars

C13_Witness ==
    /\ Len(published) = 2 /\ Envelopes = {1, 2}
    /\ reply.status_code = SubmitReturn
    /\ reply.request_id = published[2].request_id
    /\ reply.request_id # published[1].request_id

\* C14: every stored record carries the request_id and the raw_text of a
\* published envelope: the insert adds a record with those of the message
\* being handled, and neither a published envelope nor a stored record
\* changes afterwards.
C14_Correlation ==
    /\ [](\A i \in 1..Len(stored) : \E m \in Envelopes :
            /\ stored[i].request_id = published[m].request_id
            /\ stored[i].raw_text = published[m].raw_text)
    /\ [][\A c \in Consumers :
            pc[c] = "store" /\ pc'[c] = "ack" =>
                /\ Len(stored') = Len(stored) + 1
                /\ stored'[Len(stored')].request_id = published[cur[c]].request_id
                /\ stored'[Len(stored')].raw_text = published[cur[c]].raw_text]_vars
    /\ [][/\ \A m \in Msgs : published'[m] = published[m]
          /\ \A i \in 1..Len(stored) : stored'[i] = stored[i]]_vars

\* The second envelope was stored first, and again after a redelivery.
C14_Witness ==
    /\ Len(published) = 2 /\ Envelopes = {1, 2} /\ Len(stored) = 2
    /\ stored[1].request_id = published[2].request_id
    /\ stored[2].request_id = published[2].request_id
    /\ stored[2].raw_text = published[2].raw_text
    /\ qstate[2] = "acked"

\* A worker's insert returned in this step.
Inserted(c) == pc[c] = "store" /\ pc'[c] = "ack"

\* The candidate the handler of worker c got from the API.
Candidate(c) == LocateJson(response[c]).fields

Canonical(q) ==
    Len(q) = 2 /\ q[1] \in {"Q1", "Q2", "Q3", "Q4"} /\ q[2] \in YearTokens

\* C15: the period of every stored record is a canonical "Q<n> <year>" or
\* "Unknown": the insert adds a record whose period is the period parsed
\* from the candidate's period string when that matches a pattern, otherwise
\* the one parsed from the raw_text, and "Unknown" when neither matches.
C15_PeriodCanonical ==
    /\ [](\A i \in 1..Len(stored) : Canonical(stored[i].quarter) \/ stored[i].quarter = Unknown)
    /\ [][\A c \in Consumers :
            Inserted(c) =>
                stored'[Len(stored')].quarter =
                    IF ExtractQuarter(Candidate(c).quarter.toks) # << >>
                    THEN ExtractQuarter(Candidate(c).quarter.toks)
                    ELSE IF ExtractQuarter(published[cur[c]].raw_text) # << >>
                    THEN ExtractQuarter(published[cur[c]].raw_text)
                    ELSE Unknown]_vars

\* str.lower() and str.upper() of the tokens of the candidates
LowerCase(toks) ==
    [i \in DOMAIN toks |->
        CASE toks[i] = "Net" -> "net" [] toks[i] = "Income" -> "income" [] OTHER -> toks[i]]

UpperCase(toks) ==
    [i \in DOMAIN toks |-> CASE toks[i] = "usd" -> "USD" [] OTHER -> toks[i]]

\* C16: the insert adds a record whose metric is the candidate's metric in
\* lower case and whose currency is the candidate's currency in upper case;
\* the candidate {Company XYZ, Net Income, 5.3 million, usd, Q1 2024} gives
\* the record {Company XYZ, net income, 5300000.0, USD, Q1 2024}.
C16_CaseNormalized ==
    [][\A c \in Consumers :
        Inserted(c) =>
            /\ stored'[Len(stored')].metric = LowerCase(Candidate(c).metric.toks)
            /\ stored'[Len(stored')].currency = UpperCase(Candidate(c).currency.toks)
            /\ Candidate(c) = GoodMembers =>
                  /\ stored'[Len(stored')].company = <<"Company", "XYZ">>
                  /\ stored'[Len(stored')].metric = <<"net", "income">>
                  /\ stored'[Len(stored')].value = Float(53, 5)
                  /\ stored'[Len(stored')].currency = <<"USD">>
                  /\ stored'[Len(stored')].quarter = <<"Q1", "2024">>]_vars

\* The candidate has the five fields as strings and no numeric token in its
\* value.
NoNumericToken(fields) ==
    /\ \A f \in FieldNames : fields[f].type = "string"
    /\ \A i \in 1..Len(fields.value.toks) : fields.value.toks[i] \notin DOMAIN NumericTokens

\* C17: a candidate whose value has no numeric token does not end the
\* handler: the value is normalized to 0.0 and the handler goes on to the
\* insert, which adds a record with value 0.0 for it; when the handler
\* returned, the delivery got exactly one ack and no nack.
C17_NoNumericStoredAsZero ==
    /\ [][\A c \in Consumers :
            pc[c] = "normalize" /\ pc'[c] # "normalize" /\ NoNumericToken(Candidate(c)) =>
                /\ pc'[c] = "store" /\ ended' = NoDelivery
                /\ structured'[c].value = Zero
                /\ structured'[c].original_value = Candidate(c).value.toks]_vars
    /\ [][\A c \in Consumers :
            Inserted(c) /\ NoNumericToken(Candidate(c)) =>
                /\ stored'[Len(stored')].value = Zero
                /\ stored'[Len(stored')].request_id = published[cur[c]].request_id]_vars
    /\ [](Ended /\ ended.result = "returned"
             /\ NoNumericToken(LocateJson(ended.response).fields) =>
                ended.acks = 1 /\ ended.discards = 0 /\ ended.requeues = 0)

C17_Witness ==
    /\ Ended /\ ended.result = "returned" /\ ended.fate = "signalled" /\ ended.acks = 1
    /\ ended.response = JsonReply([GoodMembers EXCEPT !.value = Str(<<"N/A">>)])
    /\ qstate[ended.msg] = "acked"
    /\ Len(stored) = 1 /\ stored[1].value = Zero /\ stored[1].original_value = <<"N/A">>
    /\ stored[1].request_id = published[ended.msg].request_id

\* C18: a delivery whose candidate has no numeric token in its value ends by
\* exactly one nack-without-requeue, with no requeue and no ack, and no
\* stored record has the value 0.0 of such a candidate.
C18_NoNumericDiscarded ==
    /\ Ended /\ NoNumericToken(LocateJson(ended.response).fields) =>
          ended.discards = 1 /\ ended.requeues = 0 /\ ended.acks = 0
    /\ \A i \in 1..Len(stored) :
          ~(/\ stored[i].value = Zero
            /\ \A k \in 1..Len(stored[i].original_value) :
                  stored[i].original_value[k] \notin DOMAIN NumericTokens)

\* The three steps by which the JSON object of a response text is found:
\* the full text when json.loads accepts it; otherwise the tokens from the
\* first "{" to the last "}" when there are such and json.loads accepts
\* them; otherwise nothing ("invalid": the invalid-response failure).
ThreeSteps(r) ==
    LET opens == {i \in 1..Len(r.text) : r.text[i] = "{"}
        closes == {i \in 1..Len(r.text) : r.text[i] = "}"}
        from == CHOOSE i \in opens : \A j \in opens : i <= j
        to == CHOOSE i \in closes : \A j \in closes : j <= i
    IN  IF JsonLoads(r.text, r.members).exc = "none" THEN JsonLoads(r.text, r.members)
        ELSE IF opens # {} /\ closes # {} /\ from <= to
                /\ JsonLoads(SubSeq(r.text, from, to), r.members).exc = "none"
        THEN JsonLoads(SubSeq(r.text, from, to), r.members)
        ELSE [exc |-> "invalid", kind |-> "none", fields |-> NoFields]

\* C19: for every response text the handler goes on with the JSON value the
\* three steps find: it is normalized into structured_data, or the handler
\* ends with what the normalization raises; when the three steps find nothing
\* the handler ends with ValueError and the delivery gets exactly one
\* nack-without-requeue, no requeue and no ack, by which the broker, when it
\* gets it, discards the message.
C19_ThreeStepLocation ==
    [][\A c \in Consumers :
        pc[c] = "normalize" /\ pc'[c] # "normalize" =>
            LET found == ThreeSteps(response[c])
                r == NormalizeExtractedData(found, published[cur[c]].raw_text)
            IN  IF found.exc = "invalid"
                THEN /\ ended'.msg = cur[c] /\ ended'.result = "ValueError"
                     /\ ended'.discards = 1 /\ ended'.requeues = 0 /\ ended'.acks = 0
                     /\ ended'.transport = "none" => qstate'[cur[c]] = "discarded"
                ELSE IF r.exc = "none"
                THEN pc'[c] = "store" /\ structured'[c] = r.data /\ ended' = NoDelivery
                ELSE ended'.msg = cur[c] /\ ended'.result = r.exc]_vars

\* The object was found by the second step, normalized, stored and acked.
C19_Witness ==
    /\ Ended /\ ended.acks = 1 /\ ended.fate = "signalled"
    /\ ended.response = [text |-> <<"prose", "{", "members", "}">>, members |-> GoodMembers]
    /\ Len(stored) = 1 /\ stored[1].company = <<"Company", "XYZ">>
    /\ qstate[ended.msg] = "acked"

\* C20: a submission is answered with success and a request_id only in the
\* step in which its publish returned and put its envelope on the queue;
\* when publish raised AMQPConnectionError it is answered with 503, when it
\* raised anything else with 500, and then without request_id and with
\* nothing published.
C20_SubmitOutcomes ==
    /\ [](/\ reply.raised = "AMQPConnectionError" => reply.status_code = 503
          /\ reply.raised \notin {"none", "AMQPConnectionError"} => reply.status_code = 500
          /\ reply.raised # "none" => reply.request_id = 0
          /\ reply.request_id # 0 => reply.status_code = SubmitReturn /\ reply.raised = "none")
    /\ [][/\ reply'.status_code = SubmitReturn =>
                /\ reply'.raised = "none"
                /\ published' = Append(published, published'[Len(published')])
                /\ published'[Len(published')].request_id = reply'.request_id
          /\ reply'.raised # "none" => published' = published /\ qstate' = qstate]_vars

C20_Witness ==
    /\ reply.raised = "AMQPConnectionError" /\ reply.status_code = 503
    /\ reply.request_id = 0 /\ Len(published) = 1

\* The latest step was a submission (it answered one).
Submitted == reply.status_code # 0

\* C21: the producer's client never has more than one connection it opened
\* and has not seen closed, and it has one exactly when its connection is
\* open or lost; a step opens a connection for it only when it had none or a
\* closed one, and that step is the startup of the app (no connection
\* before) or a submission; a submission on an open connection opens none
\* and, when it succeeds, leaves the client as it was. A worker's connection
\* is opened only by the first step of consume, when it has none.
C21_OneConnection ==
    /\ [](/\ client.links <= 1
          /\ client.links = 1 <=> client.connection \in {"open", "lost"}
          /\ client.channel = "open" => client.connection \in {"open", "lost"})
    /\ [][client'.links > client.links =>
            /\ client.connection \in {"none", "closed"}
            /\ ~client.started \/ Submitted'
            /\ client.connection = "closed" => Submitted']_vars
    /\ [][Submitted' /\ client.connection = "open" =>
            /\ client'.links <= client.links
            /\ reply'.status_code = SubmitReturn => client' = client]_vars
    /\ [][\A c \in Consumers :
            conn'[c] = "open" /\ conn[c] # "open" =>
                conn[c] = "none" /\ pc[c] = "start" /\ pc'[c] = "consuming"]_vars

\* Two submissions went over one connection.
C21_Witness ==
    /\ Len(published) = 2 /\ Envelopes = {1, 2} /\ Submitted
    /\ client.links = 1 /\ client.connection = "open" /\ client.channel = "open"
    /\ \A c \in Consumers : conn[c] = "open"

\* Worker c got the shutdown signal in this step.
ShutDown(c) == pc[c] \notin {"start", "exited"} /\ pc'[c] = "exited" /\ ended'.fate # "escaped"

C23_PersistentPublish ==
    /\ [](/\ ExchangeDeclare = [exchange_type |-> "direct", durable |-> TRUE]
          /\ QueueDeclare.durable
          /\ \A m \in Envelopes :
                /\ props[m].delivery_mode = 2
                /\ props[m].content_type = "application/json"
                /\ props[m].routing_key = QueueBind.routing_key
                /\ qstate[m] \notin {"unroutable", "lost"})
    /\ [][ended'.fate = "broker_restart" =>
            \A m \in Envelopes :
                qstate[m] \in {"ready", "unacked"} =>
                    qstate'[m] = "ready" /\ published'[m] = published[m]]_vars

\* After a restart an envelope the worker is still working on is ready in
\* the queue, and a transient message of another publisher is lost.
C23_Witness ==
    /\ ended.fate = "broker_restart"
    /\ \E m \in Envelopes : qstate[m] = "ready" /\ cur[1] = m /\ conn[1] = "lost"
    /\ \E m \in Msgs : qstate[m] = "lost"

\* The quarter a token denotes in either case ("": none).
QuarterOf(tok) ==
    CASE tok \in {"Q1", "q1"} -> "Q1" [] tok \in {"Q2", "q2"} -> "Q2"
      [] tok \in {"Q3", "q3"} -> "Q3" [] tok \in {"Q4", "q4"} -> "Q4" [] OTHER -> ""

\* The quarter an ordinal denotes in either case ("": none).
OrdinalOf(tok) ==
    CASE tok \in {"first", "First"} -> "Q1" [] tok \in {"second", "Second"} -> "Q2"
      [] tok \in {"third", "Third"} -> "Q3" [] tok \in {"fourth", "Fourth"} -> "Q4"
      [] OTHER -> ""

\* The canonical periods of the matches of each pattern anywhere in a text.
Pattern1(t) ==
    {<<QuarterOf(t[i]), t[i + 1]>> :
        i \in {j \in 1..(Len(t) - 1) : QuarterOf(t[j]) # "" /\ t[j + 1] \in YearTokens}}

Pattern2(t) ==
    {<<QuarterOf(t[i + 1]), t[i]>> :
        i \in {j \in 1..(Len(t) - 1) : t[j] \in YearTokens /\ QuarterOf(t[j + 1]) # ""}}

Pattern3(t) ==
    {<<OrdinalOf(t[i]), t[i + 3]>> :
        i \in {j \in 1..(Len(t) - 3) :
                  /\ OrdinalOf(t[j]) # "" /\ t[j + 1] \in {"quarter", "Quarter"}
                  /\ t[j + 2] \in {"of", "OF"} /\ t[j + 3] \in YearTokens}}

ScaleFactor(tok) ==
    CASE tok \in {"thousand", "k", "K"} -> 3
      [] tok \in {"million", "Million", "m", "M"} -> 6
      [] tok \in {"billion", "b", "B"} -> 9
      [] tok \in {"trillion", "t", "T"} -> 12
      [] OTHER -> 0

\* C25: normalize_financial_value returns, for the first numeric token of
\* the string without its currency glyphs, wherever it stands, the number
\* times the factor of the scale word or letter that follows it, times 1
\* when what follows is no scale word or letter, and 0.0 when the string has
\* no numeric token.
C25_ScaleFactor ==
    "normalize_financial_value" \in parsed.calls =>
        LET cleaned == SelectSeq(input, KeepToken)
            numbers == {i \in 1..Len(cleaned) : cleaned[i] \in DOMAIN NumericTokens}
            i == First(numbers)
        IN  /\ parsed.exc = "none"
            /\ parsed.value =
                  IF numbers = {} THEN Zero
                  ELSE TimesPowerOfTen(
                         NumericTokens[cleaned[i]],
                         IF i < Len(cleaned) THEN ScaleFactor(cleaned[i + 1]) ELSE 0)

\* C26: extract_quarter returns a canonical string, or its own result given
\* to it again, as it is.
C26_Idempotent ==
    "extract_quarter" \in parsed.calls /\ ("reparse" \in parsed.calls \/ Canonical(input)) =>
        parsed.period = input

C26_Witness ==
    /\ parsed.calls = {"reparse", "extract_quarter"}
    /\ input = <<"Q3", "2023">> /\ parsed.period = <<"Q3", "2023">>

\* C27: for every string normalize_financial_value returns a number and
\* raises nothing, extract_quarter returns a canonical period or none, and
\* _normalize_extracted_data on a candidate with that string as value, an
\* empty quarter and that string as raw_text raises nothing and gives a
\* canonical quarter or "Unknown".
C27_ParsersNeverRaise ==
    /\ "normalize_financial_value" \in parsed.calls =>
          parsed.exc = "none" /\ parsed.value.sig \in Int /\ parsed.value.exp \in Int
    /\ "extract_quarter" \in parsed.calls =>
          parsed.period = << >> \/ Canonical(parsed.period)
    /\ "_normalize_extracted_data" \in parsed.calls =>
          parsed.handler = "none" /\ (parsed.quarter = Unknown \/ Canonical(parsed.quarter))

\* Nothing parses in "and to": the handler's normalization raises nothing,
\* the value of the record is 0.0 and its quarter "Unknown".
C27_Witness ==
    /\ input = <<"and", "to">>
    /\ parsed.calls = {"_normalize_extracted_data"}
    /\ parsed.handler = "none" /\ parsed.value = Zero /\ parsed.quarter = Unknown

\* An exception of the handler that no except clause of on_message names.
Unclassified(x) ==
    /\ x \notin {"none", "returned"}
    /\ ~IsInstance(x, {"JSONDecodeError", "ValueError", "ConnectionFailure"} \cup OpenAIErrors)

C29_HandlerOrder ==
    [][/\ \A c \in Consumers :
            /\ pc'[c] = "extract" /\ pc[c] # "extract" => pc[c] = "consuming"
            /\ pc'[c] = "normalize" /\ pc[c] # "normalize" =>
                  pc[c] = "extract" /\ response'[c] # NoResponse
            /\ pc'[c] = "store" /\ pc[c] # "store" =>
                  pc[c] = "normalize" /\ structured'[c] # NoData
            /\ pc'[c] = "ack" /\ pc[c] # "ack" =>
                  pc[c] = "store" /\ Len(stored') = Len(stored) + 1
       /\ stored' # stored =>
            \E c \in Consumers :
                /\ Inserted(c)
                /\ structured[c] # NoData
                /\ stored' = Append(stored, Document(published[cur[c]], structured[c]))
       /\ ended'.msg # NoMsg /\ ended'.acks > 0 /\ HasText(ended'.msg) =>
            pc[ended'.by] = "ack" /\ stored' = stored
       /\ /\ ended'.msg # NoMsg
          /\ \/ ended'.discards > 0
             \/ ended'.requeues > 0 /\ IsInstance(ended'.result, OpenAIErrors)
          => pc[ended'.by] \in {"consuming", "extract", "normalize"} /\ stored' = stored]_vars

\* A message with text was acked after its record was stored, the only one.
C29_Witness ==
    /\ ended.msg # NoMsg /\ HasText(ended.msg) /\ ended.acks = 1
    /\ ended.fate = "signalled" /\ qstate[ended.msg] = "acked"
    /\ Len(stored) = 1 /\ StoredFor(ended.msg)

\* A JSON object on the queue whose raw_text is missing or empty.
NoText(m) ==
    /\ published[m].kind \in {"envelope"} \cup ObjectKinds
    /\ published[m].raw_text = EmptyString

\* C30 as stated: a delivery of an envelope whose raw_text is missing or
\* empty ended with the handler returned, one ack and no nack, no call of the
\* extraction service, and the message out of the queue.
C30_EmptyTextAcked ==
    Ended /\ NoText(ended.msg) =>
        /\ ended.invoked /\ ended.result = "returned"
        /\ ended.acks = 1 /\ ended.requeues = 0 /\ ended.discards = 0
        /\ ended.response = NoResponse
        /\ qstate[ended.msg] = "acked"

\* C30 as amended: such a delivery ends in the step that began it, with the
\* handler returned, one basic_ack call and no nack, no call of the extraction
\* service and the collection as it was; when the broker got the ack the
\* message is out of the queue, when the call raised a transport error the
\* message is back in it; and no handler ever goes on with such a message.
C30_Amended ==
    /\ [][Ended' /\ NoText(ended'.msg) =>
            /\ pc[ended'.by] = "consuming" /\ cur[ended'.by] = NoMsg
            /\ ended'.invoked /\ ended'.result = "returned"
            /\ ended'.acks = 1 /\ ended'.requeues = 0 /\ ended'.discards = 0
            /\ ended'.response = NoResponse
            /\ stored' = stored
            /\ ended'.transport = "none" => qstate'[ended'.msg] = "acked"
            /\ ended'.transport # "none" => qstate'[ended'.msg] = "ready"]_vars
    /\ [](\A c \in Consumers : cur[c] # NoMsg => ~NoText(cur[c]))
    /\ [][\A m \in Msgs : NoText(m) => Removed(m, "acked")]_vars

\* An object without raw_text, put on the queue by another publisher, was
\* acked with nothing stored.
C30_Witness ==
    /\ Ended /\ published[ended.msg].kind = "no_raw_text"
    /\ ended.result = "returned" /\ ended.acks = 1 /\ ended.fate = "signalled"
    /\ qstate[ended.msg] = "acked" /\ stored = << >>

\* The exception the try block of on_message ended with in a delivery: the
\* one the handler raised, or the one decoding the body raised.
RaisedIn(d) ==
    IF d.result \notin {"none", "returned"} THEN d.result
    ELSE IF d.msg # NoMsg /\ ~d.invoked THEN DeserializeExc(published[d.msg])
    ELSE "none"

\* C31: a delivery that ended with one of the five API errors, the
\* InvalidRequestError among them, or with a storage ConnectionFailure made
\* one basic_nack(requeue=True) call and no other; one that ended with a
\* ValueError, a JSON or Unicode decode error included, made one
\* basic_nack(requeue=False) call and no other.
C31_Classification ==
    Ended =>
        /\ RaisedIn(ended) \in OpenAIErrors \cup {"ConnectionFailure"} =>
              ended.requeues = 1 /\ ended.acks = 0 /\ ended.discards = 0
        /\ IsInstance(RaisedIn(ended), {"ValueError"}) =>
              ended.discards = 1 /\ ended.acks = 0 /\ ended.requeues = 0

\* The service rejected the request as invalid; the message was requeued.
C31_Witness ==
    /\ Ended /\ ended.result = "InvalidRequestError" /\ ended.fate = "signalled"
    /\ ended.requeues = 1 /\ ended.discards = 0 /\ qstate[ended.msg] = "ready"

\* The client as the next publish has it at basic_publish when the broker
\* is reachable: connected anew if publish finds no open connection.
Reachable(cl) == IF NeedsConnect(cl) THEN Connect(cl, "none") ELSE cl

\* C32: after a submission whose publish failed with a broker error, a
\* publish issued with the broker reachable can succeed: the client it
\* publishes on has an open connection and an open channel.
C32_ProducerRecovers ==
    Submitted /\ reply.raised \in AMQPErrors => PublishPossible(Reachable(client), "none")

\* The states a broker connection and a storage client can be in.
ConnectionStates == {"none", "open", "lost", "closed"}

ClientStates == {"none", "open"}

\* C33: close() of a broker client or of the storage client that finds the
\* connection closed or never opened changes nothing and raises nothing, and
\* a second close() after a first does the same; so the step in which a
\* running worker gets the shutdown signal ends the process with both
\* connections closed, by the SystemExit of the signal handler, or by the
\* connection error of closing a connection the broker had dropped, and
\* never by an error of closing what is closed already.
C33_CloseIdempotent ==
    /\ [](/\ \A k \in ConnectionStates, x \in CloseOutcomes :
                /\ Close(Close(k)) = Close(k)
                /\ CloseRaises(Close(k), x) = "none"
                /\ k \in {"none", "closed"} => Close(k) = k /\ CloseRaises(k, x) = "none"
          /\ \A k \in ClientStates :
                /\ MongoClose(MongoClose(k)) = MongoClose(k)
                /\ MongoCloseRaises(MongoClose(k)) = "none"
                /\ k = "none" => MongoClose(k) = k /\ MongoCloseRaises(k) = "none")
    /\ [][\A c \in Consumers :
            ShutDown(c) =>
                /\ pc'[c] = "exited" /\ conn'[c] = "closed" /\ db'[c] = "none"
                /\ ended'.raised \in {"SystemExit"} \cup
                      (IF conn[c] = "lost" THEN {"AMQPConnectionError"} ELSE {})]_vars

\* The signal came while the worker waited for a delivery: both connections
\* were closed twice and the process ended by the SystemExit.
C33_Witness ==
    /\ ended.fate = "shutdown" /\ ended.raised = "SystemExit"
    /\ pc[ended.by] = "exited" /\ conn[ended.by] = "closed" /\ db[ended.by] = "none"

====
